---- MODULE Spec2Model ----
(***************************************************************************)
(* A model of agixt/providers/kobold.py: the URL normaliser, the two       *)
(* parameter validators, KoboldProvider.__init__ and                       *)
(* KoboldProvider.inference.                                               *)
(*                                                                         *)
(* Python values are records [ty, val]: ty is the Python type name, val    *)
(* the value.  A str is a sequence of one-character strings, a list a      *)
(* sequence of Python values, an int its integer, a bool 0 or 1, and a     *)
(* float its value in hundredths (1.1 is 110), so that 0.7, 0.92 and 1.1   *)
(* are exact.                                                              *)
(***************************************************************************)
EXTENDS Integers, Sequences, FiniteSets, TLC

VARIABLES
    url,      \* the argument of a clean_url call
    cleaned,  \* its return value, NotCalled before the call
    args,     \* the candidate values handed to KoboldProvider(...)
    self,     \* the provider's attributes once __init__ has run
    ctor,     \* "pending", "done", or "raised" when __init__ raised
    calls,    \* per inference call: position, arguments, response, outcome
    http      \* the POST requests issued so far, in order

vars == <<url, cleaned, args, self, ctor, calls, http>>

-----------------------------------------------------------------------------
(* Python values *)

PyNone == [ty |-> "NoneType", val |-> 0]
PyInt(n) == [ty |-> "int", val |-> n]
PyFloat(hundredths) == [ty |-> "float", val |-> hundredths]
PyBool(b) == [ty |-> "bool", val |-> IF b THEN 1 ELSE 0]
PyStr(s) == [ty |-> "str", val |-> s]
PyList(l) == [ty |-> "list", val |-> l]

\* isinstance(v, int): bool is a subclass of int
IsInstanceInt(v) == v.ty \in {"int", "bool"}
IsInstanceFloat(v) == v.ty = "float"
IsInstanceList(v) == v.ty = "list"
IsNumber(v) == v.ty \in {"int", "bool", "float"}

\* the numeric value of a number, in hundredths
Num(v) == IF v.ty = "float" THEN v.val ELSE v.val * 100

\* bool(v), as `X if X else default` evaluates it
Truthy(v) ==
    CASE v.ty = "NoneType" -> FALSE
      [] v.ty \in {"int", "bool", "float"} -> v.val # 0
      [] v.ty \in {"str", "list"} -> Len(v.val) > 0

\* v == n for an integer literal n: never raises, False across types
PyEq(v, n) == IsNumber(v) /\ Num(v) = n * 100

\* an ordering comparison of v with an integer literal raises TypeError
\* unless v is a number
CmpRaises(v) == ~IsNumber(v)

\* int(v) for a number: truncation toward zero
IntOf(v) ==
    IF v.ty = "float"
    THEN PyInt(IF v.val >= 0 THEN v.val \div 100 ELSE -((-v.val) \div 100))
    ELSE PyInt(v.val)

\* float(v) for a number
FloatOf(v) == PyFloat(Num(v))

-----------------------------------------------------------------------------
(* str methods, on sequences of characters *)

Whitespace == {" ", "\n", "\t"}

\* s.endswith(suffix)
EndsWith(s, suffix) ==
    /\ Len(suffix) <= Len(s)
    /\ SubSeq(s, Len(s) - Len(suffix) + 1, Len(s)) = suffix

\* s[:-n]: the slice s[:-0] is s[:0], the empty string
DropLast(s, n) == IF n = 0 THEN <<>> ELSE SubSeq(s, 1, Len(s) - n)

RECURSIVE rstrip(_)
rstrip(s) ==
    IF s # <<>> /\ s[Len(s)] \in Whitespace
    THEN rstrip(SubSeq(s, 1, Len(s) - 1))
    ELSE s

RECURSIVE lstrip(_)
lstrip(s) ==
    IF s # <<>> /\ s[1] \in Whitespace THEN lstrip(Tail(s)) ELSE s

strip(s) == rstrip(lstrip(s))

\* all sequences over `alphabet` of length at most n
RECURSIVE StringsUpTo(_, _)
StringsUpTo(alphabet, n) ==
    IF n = 0
    THEN {<<>>}
    ELSE LET shorter == StringsUpTo(alphabet, n - 1)
         IN  shorter \cup {Append(s, c) : s \in shorter, c \in alphabet}

-----------------------------------------------------------------------------
(* clean_url *)

ApiSuffix == <<"/", "a", "p", "i">>
Slash == <<"/">>

\* a variant that takes off a trailing slash and then a trailing /api as well
clean_url_both(u) ==
    LET v == IF EndsWith(u, Slash) THEN DropLast(u, 1) ELSE u
    IN  IF EndsWith(v, ApiSuffix) THEN DropLast(v, 4) ELSE v

clean_url(u) ==
    IF EndsWith(u, ApiSuffix) THEN DropLast(u, 4)
    ELSE IF EndsWith(u, Slash) THEN DropLast(u, 1)
    ELSE u

-----------------------------------------------------------------------------
(* the parameter validators *)

\* a variant that never applies the upper bound
is_valid_float_unranged(value, no_range) ==
    IF PyEq(value, 0) \/ PyEq(value, 1) THEN TRUE
    ELSE IF IsInstanceFloat(value) THEN Num(value) >= 0
    ELSE FALSE

is_valid_float(value, no_range) ==
    IF PyEq(value, 0) \/ PyEq(value, 1) THEN TRUE
    ELSE IF IsInstanceFloat(value)
         THEN IF no_range THEN Num(value) >= 0
              ELSE 0 <= Num(value) /\ Num(value) <= 100
    ELSE FALSE

\* set(value) for a list of ints (True == 1 and False == 0 as set members)
SetOfInts(l) == {l[i].val : i \in DOMAIN l}

\* The return expression is `set(value) == set(range(6)) or set(range(7))`:
\* when the comparison is False the result is the set {0,...,6}, whose truth
\* value is that of a non-empty set.
is_valid_sample_order(value) ==
    IF ~IsInstanceList(value) THEN FALSE
    ELSE IF \E i \in DOMAIN value.val : ~IsInstanceInt(value.val[i]) THEN FALSE
    ELSE SetOfInts(value.val) = 0..5 \/ (0..6) # {}

-----------------------------------------------------------------------------
(* KoboldProvider.__init__ *)

DefaultUri ==
    <<"h", "t", "t", "p", ":", "/", "/", "h", "o", "s", "t", ".", "d", "o",
      "c", "k", "e", "r", ".", "i", "n", "t", "e", "r", "n", "a", "l", ":",
      "5", "0", "0", "1">>
DefaultModel == <<"d", "e", "f", "a", "u", "l", "t">>
DefaultSampleOrder ==
    PyList(<<PyInt(6), PyInt(0), PyInt(1), PyInt(3), PyInt(4), PyInt(2), PyInt(5)>>)
SeedRangeMax == 999999

\* the parameter defaults of the signature
DefaultArgs ==
    [AI_PROVIDER_URI |-> PyStr(<<>>),
     AI_MODEL |-> PyStr(DefaultModel),
     PROMPT_PREFIX |-> PyStr(<<>>),
     PROMPT_SUFFIX |-> PyStr(<<>>),
     MAX_CONTEXT_LENGTH |-> PyInt(4096),
     MAX_LENGTH |-> PyInt(80),
     REP_PEN |-> PyFloat(110),
     REP_PEN_RANGE |-> PyInt(320),
     SAMPLE_ORDER |-> DefaultSampleOrder,
     SAMPLER_SEED |-> PyInt(-1),
     STOP_SEQUENCE |-> PyNone,
     TEMPERATURE |-> PyFloat(70),
     TFS |-> PyInt(1),
     TOP_A |-> PyInt(0),
     TOP_K |-> PyInt(100),
     TOP_P |-> PyFloat(92),
     MIN_P |-> PyInt(0),
     TYPICAL |-> PyInt(1),
     USE_DEFAULT_BADWORDSIDS |-> PyBool(FALSE),
     MIROSTAT |-> PyFloat(0),
     MIROSTAT_TAU |-> PyFloat(500),
     MIROSTAT_ETA |-> PyFloat(10),
     GRAMMAR |-> PyStr(<<>>),
     GRAMMAR_RETAIN_STATE |-> PyBool(FALSE),
     MEMORY |-> PyStr(<<>>),
     TRIM_STOP |-> PyBool(FALSE)]

\* `X if X else d`
OrDefault(x, d) == IF Truthy(x) THEN x ELSE d

\* `REP_PEN_RANGE >= 0` is the one unguarded ordering comparison that
\* __init__ reaches first; it raises TypeError for a non-number.
init_raises(a) == CmpRaises(a.REP_PEN_RANGE)

stored_AI_PROVIDER_URI(a) ==
    IF Truthy(a.AI_PROVIDER_URI)
    THEN PyStr(clean_url(a.AI_PROVIDER_URI.val))
    ELSE PyStr(DefaultUri)

stored_REP_PEN(a) ==
    IF IsInstanceFloat(a.REP_PEN) /\ Num(a.REP_PEN) >= 100
    THEN a.REP_PEN ELSE PyFloat(110)

stored_REP_PEN_RANGE(a) ==
    IF Num(a.REP_PEN_RANGE) >= 0 THEN a.REP_PEN_RANGE ELSE PyInt(320)

stored_SAMPLE_ORDER(a) ==
    IF is_valid_sample_order(a.SAMPLE_ORDER)
    THEN a.SAMPLE_ORDER ELSE DefaultSampleOrder

\* a variant whose condition reads the seed itself
stored_SAMPLER_SEED_checks_seed(a) ==
    IF IsNumber(a.SAMPLER_SEED)
       /\ -100 <= Num(a.SAMPLER_SEED)
       /\ Num(a.SAMPLER_SEED) <= SeedRangeMax * 100
    THEN a.SAMPLER_SEED ELSE PyInt(-1)

\* the condition reads REP_PEN_RANGE, not SAMPLER_SEED
stored_SAMPLER_SEED(a) ==
    IF -100 <= Num(a.REP_PEN_RANGE) /\ Num(a.REP_PEN_RANGE) <= SeedRangeMax * 100
    THEN a.SAMPLER_SEED ELSE PyInt(-1)

stored_TOP_K(a) ==
    IF IsInstanceInt(a.TOP_K) /\ Num(a.TOP_K) >= 0 THEN a.TOP_K ELSE PyInt(100)

\* the attributes __init__ assigns when it does not raise
init(a) ==
    [AI_PROVIDER_URI |-> stored_AI_PROVIDER_URI(a),
     AI_MODEL |-> a.AI_MODEL,
     PROMPT_PREFIX |-> OrDefault(a.PROMPT_PREFIX, PyStr(<<>>)),
     PROMPT_SUFFIX |-> OrDefault(a.PROMPT_SUFFIX, PyStr(<<>>)),
     MAX_CONTEXT_LENGTH |-> OrDefault(a.MAX_CONTEXT_LENGTH, PyInt(4096)),
     MAX_LENGTH |-> OrDefault(a.MAX_LENGTH, PyInt(80)),
     REP_PEN |-> stored_REP_PEN(a),
     REP_PEN_RANGE |-> stored_REP_PEN_RANGE(a),
     SAMPLE_ORDER |-> stored_SAMPLE_ORDER(a),
     SAMPLER_SEED |-> stored_SAMPLER_SEED(a),
     STOP_SEQUENCE |-> a.STOP_SEQUENCE,
     TEMPERATURE |->
        IF is_valid_float(a.TEMPERATURE, FALSE) THEN a.TEMPERATURE ELSE PyFloat(70),
     TFS |-> IF is_valid_float(a.TFS, FALSE) THEN a.TFS ELSE PyFloat(100),
     TOP_A |-> IF is_valid_float(a.TOP_A, FALSE) THEN a.TOP_A ELSE PyFloat(0),
     TOP_K |-> stored_TOP_K(a),
     TOP_P |-> IF is_valid_float(a.TOP_P, FALSE) THEN a.TOP_P ELSE PyFloat(92),
     MIN_P |-> IF is_valid_float(a.MIN_P, FALSE) THEN a.MIN_P ELSE PyFloat(0),
     TYPICAL |-> IF is_valid_float(a.TYPICAL, FALSE) THEN a.TYPICAL ELSE PyFloat(100),
     USE_DEFAULT_BADWORDSIDS |-> OrDefault(a.USE_DEFAULT_BADWORDSIDS, PyBool(FALSE)),
     MIROSTAT |-> OrDefault(a.MIROSTAT, PyInt(0)),
     MIROSTAT_TAU |-> OrDefault(a.MIROSTAT_TAU, PyFloat(500)),
     MIROSTAT_ETA |-> OrDefault(a.MIROSTAT_ETA, PyFloat(10)),
     GRAMMAR |-> OrDefault(a.GRAMMAR, PyStr(<<>>)),
     GRAMMAR_RETAIN_STATE |-> OrDefault(a.GRAMMAR_RETAIN_STATE, PyBool(FALSE)),
     MEMORY |-> OrDefault(a.MEMORY, PyStr(<<>>)),
     TRIM_STOP |-> OrDefault(a.TRIM_STOP, PyBool(FALSE))]

NoSelf == [ty |-> "unset"]
NotCalled == [ty |-> "unset"]

\* KoboldProvider(**args)
Construct ==
    /\ ctor = "pending"
    /\ IF init_raises(args)
       THEN ctor' = "raised" /\ self' = NoSelf
       ELSE ctor' = "done" /\ self' = init(args)
    /\ UNCHANGED <<url, cleaned, args, calls, http>>

-----------------------------------------------------------------------------
(* KoboldProvider.inference *)

GeneratePath ==
    <<"/", "a", "p", "i", "/", "v", "1", "/", "g", "e", "n", "e", "r", "a",
      "t", "e">>

\* params[k] = v
Put(p, k, v) == [x \in DOMAIN p \cup {k} |-> IF x = k THEN v ELSE p[x]]

\* the dict literal that params starts as
base_params(s, prompt, tokens) ==
    [prompt |-> PyStr(s.PROMPT_PREFIX.val \o prompt \o s.PROMPT_SUFFIX.val),
     max_context_length |-> s.MAX_CONTEXT_LENGTH,
     MAX_LENGTH |-> PyInt(IntOf(s.MAX_LENGTH).val - tokens),
     rep_pen |-> FloatOf(s.REP_PEN),
     rep_pen_range |-> IntOf(s.REP_PEN_RANGE),
     sampler_order |-> s.SAMPLE_ORDER,
     temperature |-> FloatOf(s.TEMPERATURE),
     tfs |-> FloatOf(s.TFS),
     top_a |-> FloatOf(s.TOP_A),
     top_k |-> IntOf(s.TOP_K),
     top_p |-> FloatOf(s.TOP_P),
     min_p |-> FloatOf(s.MIN_P),
     typical |-> FloatOf(s.TYPICAL)]

\* a variant that also sends a seed of 0
with_sampler_seed_nonneg(s, p) ==
    IF Num(s.SAMPLER_SEED) >= 0 THEN Put(p, "sampler_seed", s.SAMPLER_SEED) ELSE p

with_sampler_seed(s, p) ==
    IF Num(s.SAMPLER_SEED) > 0 THEN Put(p, "sampler_seed", s.SAMPLER_SEED) ELSE p

with_badwordsids(s, p) ==
    IF Truthy(s.USE_DEFAULT_BADWORDSIDS)
    THEN Put(p, "use_default_badwordsids", s.USE_DEFAULT_BADWORDSIDS) ELSE p

with_memory(s, p) ==
    IF Truthy(s.MEMORY) THEN Put(p, "memory", s.MEMORY) ELSE p

with_grammar(s, p) ==
    IF Truthy(s.GRAMMAR)
    THEN Put(Put(p, "grammar", s.GRAMMAR),
             "grammar_retain_state", s.GRAMMAR_RETAIN_STATE)
    ELSE p

with_mirostat(s, p) ==
    IF Num(s.MIROSTAT) > 0
    THEN Put(Put(Put(p, "mirostat", s.MIROSTAT),
                 "mirostat_tau", s.MIROSTAT_TAU),
             "mirostat_eta", s.MIROSTAT_ETA)
    ELSE p

with_stop_sequence(s, p) ==
    IF s.STOP_SEQUENCE.ty # "NoneType"
    THEN LET q == Put(p, "stop_sequence", s.STOP_SEQUENCE)
         IN  IF Truthy(s.TRIM_STOP) THEN Put(q, "trim_stop", s.TRIM_STOP) ELSE q
    ELSE p

\* params as handed to requests.post
params(s, prompt, tokens) ==
    with_stop_sequence(s,
      with_mirostat(s,
        with_grammar(s,
          with_memory(s,
            with_badwordsids(s,
              with_sampler_seed(s, base_params(s, prompt, tokens)))))))

\* `self.SAMPLER_SEED > 0` and `self.MIROSTAT > 0` raise TypeError for a
\* stored value that is not a number; both come before the request.
params_raises(s) == CmpRaises(s.SAMPLER_SEED) \/ CmpRaises(s.MIROSTAT)

request_url(s) == s.AI_PROVIDER_URI.val \o GeneratePath

\* response.raise_for_status() raises HTTPError for a 4xx or 5xx status
raise_for_status_raises(response) ==
    400 <= response.status_code /\ response.status_code < 600

\* the condition of the `if` that guards the text extraction
has_results_text(json_response) ==
    /\ "results" \in DOMAIN json_response
    /\ Len(json_response.results) > 0
    /\ "text" \in DOMAIN json_response.results[1]

\* the loop over self.STOP_SEQUENCE: it has no break
RECURSIVE strip_stop_sequences(_, _)
strip_stop_sequences(text, sequences) ==
    IF sequences = <<>> THEN text
    ELSE LET sequence == Head(sequences).val
         IN  strip_stop_sequences(
                 IF EndsWith(text, sequence)
                 THEN rstrip(DropLast(text, Len(sequence)))
                 ELSE text,
                 Tail(sequences))

extract_text(s, json_response) ==
    LET text == strip(json_response.results[1].text)
    IN  IF s.STOP_SEQUENCE.ty # "NoneType"
        THEN strip_stop_sequences(text, s.STOP_SEQUENCE.val)
        ELSE text

NoText == [ty |-> "unset"]
NoResponse == [status_code |-> 0, is_json |-> FALSE, json |-> <<>>]

\* a variant that calls response.json() before raise_for_status()
finish_parse_first(s, response) ==
    IF ~response.is_json
    THEN [pc |-> "JSONDecodeError", parsed |-> TRUE, result |-> NoText]
    ELSE IF raise_for_status_raises(response)
    THEN [pc |-> "HTTPError", parsed |-> TRUE, result |-> NoText]
    ELSE IF has_results_text(response.json)
    THEN [pc |-> "returned", parsed |-> TRUE,
          result |-> PyStr(extract_text(s, response.json))]
    ELSE [pc |-> "ValueError", parsed |-> TRUE, result |-> NoText]

\* a variant that returns an empty text for a response of another shape
finish_empty_on_mismatch(s, response) ==
    IF raise_for_status_raises(response)
    THEN [pc |-> "HTTPError", parsed |-> FALSE, result |-> NoText]
    ELSE IF ~response.is_json
    THEN [pc |-> "JSONDecodeError", parsed |-> TRUE, result |-> NoText]
    ELSE IF has_results_text(response.json)
    THEN [pc |-> "returned", parsed |-> TRUE,
          result |-> PyStr(extract_text(s, response.json))]
    ELSE [pc |-> "returned", parsed |-> TRUE, result |-> PyStr(<<>>)]

\* what inference does with the response: the exception it raises or the
\* text it returns, and whether response.json() was called
finish(s, response) ==
    IF raise_for_status_raises(response)
    THEN [pc |-> "HTTPError", parsed |-> FALSE, result |-> NoText]
    ELSE IF ~response.is_json
    THEN [pc |-> "JSONDecodeError", parsed |-> TRUE, result |-> NoText]
    ELSE IF has_results_text(response.json)
    THEN [pc |-> "returned", parsed |-> TRUE,
          result |-> PyStr(extract_text(s, response.json))]
    ELSE [pc |-> "ValueError", parsed |-> TRUE, result |-> NoText]

IdleCall ==
    [pc |-> "idle", prompt |-> <<>>, tokens |-> 0, response |-> NoResponse,
     parsed |-> FALSE, result |-> NoText]

CallIds == DOMAIN calls

\* inference(prompt, tokens) up to and including the sending of the request
InferenceCall(c, prompt, tokens) ==
    /\ ctor = "done"
    /\ calls[c].pc = "idle"
    /\ IF params_raises(self)
       THEN /\ calls' = [calls EXCEPT ![c] =
                    [@ EXCEPT !.pc = "TypeError", !.prompt = prompt,
                              !.tokens = tokens]]
            /\ http' = http
       ELSE /\ calls' = [calls EXCEPT ![c] =
                    [@ EXCEPT !.pc = "posted", !.prompt = prompt,
                              !.tokens = tokens]]
            /\ http' = Append(http,
                    [call |-> c, method |-> "POST", url |-> request_url(self),
                     json |-> params(self, prompt, tokens)])
    /\ UNCHANGED <<url, cleaned, args, self, ctor>>

\* the server's answer to the request of call c arrives
ServerRespond(c, response) ==
    /\ calls[c].pc = "posted"
    /\ calls' = [calls EXCEPT ![c] = [@ EXCEPT !.pc = "responded",
                                               !.response = response]]
    /\ UNCHANGED <<url, cleaned, args, self, ctor, http>>

\* the rest of inference: raise_for_status, json, extraction
InferenceReturn(c) ==
    /\ calls[c].pc = "responded"
    /\ LET f == finish(self, calls[c].response)
       IN  calls' = [calls EXCEPT ![c] =
                [@ EXCEPT !.pc = f.pc, !.parsed = f.parsed,
                          !.result = f.result]]
    /\ UNCHANGED <<url, cleaned, args, self, ctor, http>>

\* clean_url(url)
CleanUrl ==
    /\ cleaned.ty = "unset"
    /\ cleaned' = PyStr(clean_url(url))
    /\ UNCHANGED <<url, args, self, ctor, calls, http>>

-----------------------------------------------------------------------------
(* bounds and input sets *)

MaxUrlLen == 8
MaxTextLen == 3
MaxStops == 2
MaxCalls == 2

UrlAlphabet == {"/", "a", "p", "i"}
TextAlphabet == {" ", "a", "b"}

A == <<"a">>
B == <<"b">>

\* response bodies: not JSON at all, or a JSON object
NotJson == [is_json |-> FALSE, json |-> <<>>]
Json(j) == [is_json |-> TRUE, json |-> j]
NoResultsKey == Json([error |-> <<"b">>])
EmptyResults == Json([results |-> <<>>])
NoTextField == Json([results |-> <<[index |-> <<"a">>]>>])
TextBody(t) == Json([results |-> <<[text |-> t]>>])

Response(status, body) ==
    [status_code |-> status, is_json |-> body.is_json, json |-> body.json]

Idle(ids) == [c \in ids |-> IdleCall]

\* the state before anything has run, for candidate values `a`
Start(a, u, ids) ==
    /\ url = u
    /\ cleaned = NotCalled
    /\ args = a
    /\ self = NoSelf
    /\ ctor = "pending"
    /\ calls = Idle(ids)
    /\ http = <<>>

-----------------------------------------------------------------------------
(* SpecUrl: clean_url on every URL over UrlAlphabet up to MaxUrlLen *)

InitUrl == \E u \in StringsUpTo(UrlAlphabet, MaxUrlLen) : Start(DefaultArgs, u, {})

NextUrl == CleanUrl

SpecUrl == InitUrl /\ [][NextUrl]_vars

-----------------------------------------------------------------------------
(* SpecCtor: __init__ on candidate values of the right and the wrong type *)

X == PyStr(<<"x">>)

RepPenCandidates ==
    {PyFloat(110), PyFloat(100), PyFloat(250), PyFloat(99), PyInt(2), X}
RepPenRangeCandidates ==
    {PyInt(-2), PyInt(-1), PyInt(0), PyInt(320), PyInt(SeedRangeMax),
     PyInt(SeedRangeMax + 1), PyFloat(-150), X, PyNone}
SampleOrderCandidates ==
    {DefaultSampleOrder,
     PyList(<<PyInt(0), PyInt(1), PyInt(2), PyInt(3), PyInt(4), PyInt(5), PyInt(6)>>),
     PyList(<<PyInt(0), PyInt(1), PyInt(2), PyInt(3), PyInt(4), PyInt(5)>>),
     PyList(<<PyInt(0), PyInt(0)>>),
     PyList(<<PyInt(9)>>),
     PyList(<<PyInt(0), X>>),
     X}
SeedCandidates == {PyInt(-1), PyInt(7), PyInt(SeedRangeMax + 1), PyInt(-5), X}
FractionCandidates ==
    {PyFloat(70), PyFloat(100), PyFloat(150), PyFloat(-10), PyInt(1), PyInt(2),
     PyBool(TRUE), X}
TopKCandidates == {PyInt(100), PyInt(-1), PyFloat(200), PyBool(TRUE), X}

FractionFields == {"TEMPERATURE", "TFS", "TOP_A", "TOP_P", "MIN_P", "TYPICAL"}

\* the defaults with one of the fraction fields replaced
WithFraction(f, v) == [DefaultArgs EXCEPT ![f] = v]

InitCtor ==
    \E rp \in RepPenCandidates, rr \in RepPenRangeCandidates,
       so \in SampleOrderCandidates, sd \in SeedCandidates,
       f \in FractionFields, fv \in FractionCandidates, tk \in TopKCandidates :
        Start([WithFraction(f, fv) EXCEPT
                   !.REP_PEN = rp, !.REP_PEN_RANGE = rr, !.SAMPLE_ORDER = so,
                   !.SAMPLER_SEED = sd, !.TOP_K = tk],
              <<>>, {})

NextCtor == Construct

SpecCtor == InitCtor /\ [][NextCtor]_vars

-----------------------------------------------------------------------------
(* the inference specifications *)

Next(inputs, responses) ==
    \/ Construct
    \/ \E c \in CallIds, i \in inputs : InferenceCall(c, i[1], i[2])
    \/ \E c \in CallIds, r \in responses : ServerRespond(c, r)
    \/ \E c \in CallIds : InferenceReturn(c)

\* Spec: up to MaxCalls calls on one provider, interleaved, against a
\* server that answers with any status and any body
SpecSeeds == {PyInt(7), X}
SpecStops == {PyNone, PyList(<<PyStr(B)>>)}
SpecInputs == {<<A, 0>>, <<B, 1>>}
SpecResponses ==
    {Response(200, b) :
        b \in {NotJson, NoResultsKey, EmptyResults, NoTextField,
               TextBody(<<"a", " ", "b">>)}}
    \cup {Response(404, TextBody(<<"a", " ", "b">>)), Response(404, NotJson),
          Response(500, NoResultsKey), Response(500, EmptyResults)}

Init ==
    \E sd \in SpecSeeds, st \in SpecStops :
        Start([DefaultArgs EXCEPT !.AI_PROVIDER_URI = PyStr(<<"a", "/">>),
                                  !.SAMPLER_SEED = sd, !.STOP_SEQUENCE = st],
              <<>>, 1..MaxCalls)

NextSpec == Next(SpecInputs, SpecResponses)

Spec == Init /\ [][NextSpec]_vars

\* SpecPayload: one call for each configuration of the optional payload keys
PayloadInputs == {<<A, 0>>, <<B, 100>>}
PayloadResponses == {Response(200, TextBody(A)), Response(500, NotJson)}
MirostatCandidates ==
    {<<PyFloat(0), PyFloat(500), PyFloat(10)>>,
     <<PyInt(2), PyFloat(300), PyFloat(20)>>,
     <<PyInt(-1), PyFloat(300), PyFloat(20)>>}
StopCandidates == {PyNone, PyList(<<>>), PyList(<<PyStr(A), PyStr(B)>>)}

InitPayload ==
    \E sd \in {PyInt(-1), PyInt(0), PyInt(7)}, bw \in BOOLEAN,
       mem \in {<<>>, A}, gr \in {<<>>, B}, rs \in BOOLEAN,
       mi \in MirostatCandidates, st \in StopCandidates, tr \in BOOLEAN :
        Start([DefaultArgs EXCEPT
                   !.SAMPLER_SEED = sd,
                   !.USE_DEFAULT_BADWORDSIDS = PyBool(bw),
                   !.MEMORY = PyStr(mem),
                   !.GRAMMAR = PyStr(gr),
                   !.GRAMMAR_RETAIN_STATE = PyBool(rs),
                   !.MIROSTAT = mi[1], !.MIROSTAT_TAU = mi[2],
                   !.MIROSTAT_ETA = mi[3],
                   !.STOP_SEQUENCE = st,
                   !.TRIM_STOP = PyBool(tr)],
              <<>>, {1})

NextPayload == Next(PayloadInputs, PayloadResponses)

SpecPayload == InitPayload /\ [][NextPayload]_vars

\* SpecTrim: one call for each list of stop sequences and each response text
StopStrings == StringsUpTo({"a", "b"}, 2) \cup {<<" ", "b">>}

RECURSIVE ListsUpTo(_, _)
ListsUpTo(elements, n) ==
    IF n = 0
    THEN {<<>>}
    ELSE LET shorter == ListsUpTo(elements, n - 1)
         IN  shorter \cup {Append(l, PyStr(e)) : l \in shorter, e \in elements}

TrimInputs == {<<A, 0>>}
TrimResponses ==
    {Response(200, TextBody(t)) : t \in StringsUpTo(TextAlphabet, MaxTextLen)}

InitTrim ==
    \E st \in {PyNone} \cup {PyList(l) : l \in ListsUpTo(StopStrings, MaxStops)},
       tr \in BOOLEAN :
        Start([DefaultArgs EXCEPT !.STOP_SEQUENCE = st, !.TRIM_STOP = PyBool(tr)],
              <<>>, {1})

NextTrim == Next(TrimInputs, TrimResponses)

SpecTrim == InitTrim /\ [][NextTrim]_vars

-----------------------------------------------------------------------------
(* properties *)

Requests == {http[i] : i \in DOMAIN http}
Keys(request) == DOMAIN request.json
Finished(c) ==
    calls[c].pc \in
        {"returned", "HTTPError", "JSONDecodeError", "ValueError", "TypeError"}

\* t is s with the suffix q taken off
IsWithout(t, s, q) == t \o q = s
HasSuffix(s, q) == \E k \in 0..Len(s) : IsWithout(SubSeq(s, 1, k), s, q)

\* C1: in every payload sent, mirostat (with tau and eta), grammar (with
\* grammar_retain_state), memory, sampler_seed and stop_sequence are present
\* exactly when their condition holds (mode > 0, grammar non-empty, memory
\* non-empty, seed > 0, stop sequences not None), each with the stored value,
\* and trim_stop is present exactly when trimming is enabled and stop
\* sequences are configured.
C1_OptionalKeysFollowConfiguration ==
    \A r \in Requests :
        LET p == r.json
            k == Keys(r)
        IN  /\ ("mirostat" \in k) = (Num(self.MIROSTAT) > 0)
            /\ ("mirostat_tau" \in k) = ("mirostat" \in k)
            /\ ("mirostat_eta" \in k) = ("mirostat" \in k)
            /\ "mirostat" \in k =>
                  /\ p["mirostat"] = self.MIROSTAT
                  /\ p["mirostat_tau"] = self.MIROSTAT_TAU
                  /\ p["mirostat_eta"] = self.MIROSTAT_ETA
            /\ ("grammar" \in k) = (self.GRAMMAR.val # <<>>)
            /\ ("grammar_retain_state" \in k) = ("grammar" \in k)
            /\ "grammar" \in k =>
                  /\ p["grammar"] = self.GRAMMAR
                  /\ p["grammar_retain_state"] = self.GRAMMAR_RETAIN_STATE
            /\ ("memory" \in k) = (self.MEMORY.val # <<>>)
            /\ "memory" \in k => p["memory"] = self.MEMORY
            /\ ("sampler_seed" \in k) = (Num(self.SAMPLER_SEED) > 0)
            /\ "sampler_seed" \in k => p["sampler_seed"] = self.SAMPLER_SEED
            /\ ("stop_sequence" \in k) = (self.STOP_SEQUENCE.ty # "NoneType")
            /\ "stop_sequence" \in k => p["stop_sequence"] = self.STOP_SEQUENCE
            /\ ("trim_stop" \in k) =
                  (self.TRIM_STOP.val = 1 /\ self.STOP_SEQUENCE.ty # "NoneType")

C1_Witness ==
    \E r \in Requests :
        /\ {"mirostat", "grammar", "memory", "sampler_seed", "stop_sequence",
            "trim_stop"} \subseteq Keys(r)
        /\ args.SAMPLER_SEED = PyInt(7)
        /\ args.MIROSTAT = PyInt(2)

\* the text with only the first matching stop sequence taken off
FirstMatchOnly(text, stops) ==
    IF \E i \in DOMAIN stops : HasSuffix(text, stops[i].val)
    THEN LET first == CHOOSE i \in DOMAIN stops :
                        /\ HasSuffix(text, stops[i].val)
                        /\ \A j \in 1..(i - 1) : ~HasSuffix(text, stops[j].val)
         IN  rstrip(CHOOSE t \in {SubSeq(text, 1, k) : k \in 0..Len(text)} :
                        IsWithout(t, text, stops[first].val))
    ELSE text

ResponseText(c) == calls[c].response.json.results[1].text
StopList == IF self.STOP_SEQUENCE.ty = "list" THEN self.STOP_SEQUENCE.val ELSE <<>>

\* C2 as stated: a returned text is the trimmed response text with at most
\* one stop sequence removed, the first in configured order that is a
\* trailing suffix, and no later one.
C2_OnlyFirstMatchRemoved ==
    \A c \in CallIds :
        calls[c].pc = "returned" =>
            calls[c].result.val = FirstMatchOnly(strip(ResponseText(c)), StopList)

\* C3 as stated: __init__ never raises, whatever the candidates
C3_ConstructionNeverRaises == ctor # "raised"

IsPermutation0to6(v) ==
    /\ v.ty = "list"
    /\ Len(v.val) = 7
    /\ \A i \in DOMAIN v.val : v.val[i].ty = "int"
    /\ {v.val[i].val : i \in DOMAIN v.val} = 0..6

\* C4 as stated: the stored sampler order is a permutation of 0..6, the
\* candidate if it is one and the default otherwise
C4_StoredOrderIsPermutation ==
    ctor = "done" =>
        /\ IsPermutation0to6(self.SAMPLE_ORDER)
        /\ self.SAMPLE_ORDER =
              IF IsPermutation0to6(args.SAMPLE_ORDER)
              THEN args.SAMPLE_ORDER ELSE DefaultSampleOrder

\* C5: a call whose response has a 4xx or 5xx status ends with HTTPError,
\* without response.json() having been called and without a text
C5_FailureStatusIsNeverParsed ==
    \A c \in CallIds :
        (Finished(c) /\ calls[c].response.status_code >= 400) =>
            /\ calls[c].pc = "HTTPError"
            /\ ~calls[c].parsed
            /\ calls[c].result.ty = "unset"

C5_Witness ==
    \E c \in CallIds :
        /\ calls[c].pc = "HTTPError"
        /\ calls[c].response = Response(404, TextBody(<<"a", " ", "b">>))

\* the JSON has a non-empty results array whose first element has a text
WellShaped(j) ==
    /\ "results" \in DOMAIN j
    /\ j.results # <<>>
    /\ "text" \in DOMAIN Head(j.results)

\* C6: a call whose response has a success status and JSON of another shape
\* ends with ValueError and no text; a call returns a text only for a
\* response of the expected shape
C6_FormatErrorUnlessWellShaped ==
    \A c \in CallIds :
        LET r == calls[c].response
        IN  /\ (Finished(c) /\ calls[c].pc # "TypeError"
                  /\ r.status_code = 200 /\ r.is_json /\ ~WellShaped(r.json)) =>
                  (calls[c].pc = "ValueError" /\ calls[c].result.ty = "unset")
            /\ calls[c].pc = "returned" =>
                  (r.is_json /\ WellShaped(r.json) /\ calls[c].result.ty = "str")
            /\ calls[c].result.ty = "str" => calls[c].pc = "returned"

C6_Witness ==
    /\ \E c \in CallIds :
          calls[c].pc = "ValueError" /\ calls[c].response = Response(200, EmptyResults)
    /\ \E c \in CallIds :
          calls[c].pc = "returned" /\ calls[c].result = PyStr(<<"a", " ", "b">>)

InUnitInterval(v) == IsNumber(v) /\ 0 <= Num(v) /\ Num(v) <= 100
IsFloatAtLeastOne(v) == v.ty = "float" /\ v.val >= 100

\* C7: the stored temperature, tfs, top_a, top_p, min_p and typical lie in
\* [0,1]; the stored repetition penalty is a float >= 1, and is 1.1 when
\* the candidate is not a float >= 1; the stored top-k is an integer >= 0
C7_StoredCoefficientsInRange ==
    ctor = "done" =>
        /\ \A f \in FractionFields : InUnitInterval(self[f])
        /\ IsFloatAtLeastOne(self.REP_PEN)
        /\ IsFloatAtLeastOne(args.REP_PEN) \/ self.REP_PEN = PyFloat(110)
        /\ self.TOP_K.ty \in {"int", "bool"} /\ self.TOP_K.val >= 0

C7_Witness ==
    /\ ctor = "done"
    /\ args.TYPICAL = PyFloat(150) /\ self.TYPICAL = PyFloat(100)
    /\ args.REP_PEN = PyInt(2) /\ self.REP_PEN = PyFloat(110)
    /\ args.TOP_K = PyInt(-1) /\ self.TOP_K = PyInt(100)

RangeInside(v) == -100 <= Num(v) /\ Num(v) <= SeedRangeMax * 100

\* C8: for a numeric candidate range, the stored seed is -1 when the range
\* is outside [-1, 999999] and the candidate seed when it is inside,
\* whatever the candidate seed
C8_SeedFollowsRangeField ==
    (ctor = "done" /\ IsNumber(args.REP_PEN_RANGE)) =>
        IF RangeInside(args.REP_PEN_RANGE)
        THEN self.SAMPLER_SEED = args.SAMPLER_SEED
        ELSE self.SAMPLER_SEED = PyInt(-1)

C8_Witness ==
    /\ ctor = "done"
    /\ \/ /\ args.REP_PEN_RANGE = PyInt(SeedRangeMax + 1)
          /\ args.SAMPLER_SEED = PyInt(7)
          /\ self.SAMPLER_SEED = PyInt(-1)
       \/ /\ args.REP_PEN_RANGE = PyInt(320)
          /\ args.SAMPLER_SEED = PyInt(SeedRangeMax + 1)
          /\ self.SAMPLER_SEED = PyInt(SeedRangeMax + 1)

RequestsOf(c) == {i \in DOMAIN http : http[i].call = c}

\* C10 as stated: every call that has got past its start has issued exactly
\* one POST, to {base_url}/api/v1/generate, on every path it ends on; and
\* two requests for the same prompt and token count carry the same payload
C10_ExactlyOnePostPerCall ==
    /\ \A c \in CallIds :
          calls[c].pc # "idle" =>
              /\ Cardinality(RequestsOf(c)) = 1
              /\ \A i \in RequestsOf(c) :
                    /\ http[i].method = "POST"
                    /\ http[i].url = self.AI_PROVIDER_URI.val \o GeneratePath
    /\ \A i, j \in DOMAIN http :
          (calls[http[i].call].prompt = calls[http[j].call].prompt
             /\ calls[http[i].call].tokens = calls[http[j].call].tokens) =>
              http[i].json = http[j].json

\* What does hold of the calls that get as far as the request: one POST
\* each, to {base_url}/api/v1/generate, and none added after it
OnePostOncePosted ==
    \A c \in CallIds :
        calls[c].pc \notin {"idle", "TypeError"} =>
            /\ Cardinality(RequestsOf(c)) = 1
            /\ \A i \in RequestsOf(c) :
                  /\ http[i].method = "POST"
                  /\ http[i].url = self.AI_PROVIDER_URI.val \o GeneratePath
                  /\ http[i].json = params(self, calls[c].prompt, calls[c].tokens)

\* inference never assigns to an attribute of self
ConfigurationUnchanged == [][ctor = "done" => self' = self]_vars

====
